---- MODULE Spec2Model ----
(***************************************************************************)
(* A model of the unifi-ddns request handler: a Cloudflare Worker that     *)
(* decodes Basic credentials, builds an A/AAAA record from the connecting  *)
(* IP, and walks the provider through verify-token, list-zones,            *)
(* list-records and update-record.  The repository holds two copies of the *)
(* handler (src/src/index.ts and src/unnamed/part_000); the variable       *)
(* `handler` says which copy an execution runs.                            *)
(*                                                                         *)
(* JavaScript strings that the code searches or decodes are sequences of   *)
(* one-character strings; strings it only passes along are TLA+ strings.   *)
(* An optional value is a sequence of length 0 (absent) or 1 (present).    *)
(***************************************************************************)
EXTENDS Naturals, Integers, Sequences, FiniteSets, TLC

VARIABLES
    handler,    \* "index" or "part_000": the copy of the handler that runs
    request,    \* request[i]: the inbound request of invocation i
    pc,         \* pc[i]: where invocation i is suspended
    env,        \* env[i]: the locals of invocation i that survive an await
    calls,      \* calls[i]: the provider calls invocation i has issued
    response,   \* response[i]: the Response of invocation i, once returned
    store,      \* the provider's DNS records of zone ZoneId
    store0,     \* the store as it was before any invocation began
    edits,      \* how many edits other actors have made to the store
    history     \* provider writes and handler responses, in order

vars == <<handler, request, pc, env, calls, response, store, store0, edits, history>>

----------------------------------------------------------------------------
(* Bounds of the model. *)

MaxHeaderLen == 5
MaxIpLen == 2
MaxEdits == 1

----------------------------------------------------------------------------
(* Optional values and strings. *)

None == <<>>
Some(v) == <<v>>
IsNone(o) == Len(o) = 0
IsSome(o) == Len(o) = 1
Get(o) == o[1]

\* All sequences over S of length lo..hi.
SeqsBetween(S, lo, hi) == UNION {[1..n -> S] : n \in lo..hi}

\* String.prototype.includes / indexOf for a one-character needle;
\* indexOf is 0-based and -1 when the character does not occur.
includes(s, c) == \E k \in 1..Len(s) : s[k] = c

indexOf(s, c) ==
    IF includes(s, c)
    THEN (CHOOSE k \in 1..Len(s) : s[k] = c /\ \A j \in 1..(k - 1) : s[j] # c) - 1
    ELSE -1

\* s.substring(from) and s.substring(0, to), 0-based as in JavaScript.
substringFrom(s, from) == [k \in 1..(Len(s) - from) |-> s[k + from]]
substringTo(s, to) == [k \in 1..to |-> s[k]]

\* authorization.split(' '): the pieces between single spaces.
RECURSIVE split(_, _)
split(s, sep) ==
    IF ~includes(s, sep)
    THEN <<s>>
    ELSE LET k == indexOf(s, sep)
         IN  <<substringTo(s, k)>> \o split(substringFrom(s, k + 1), sep)

----------------------------------------------------------------------------
(* atob: the platform's forgiving-base64 decoder.  The result is either    *)
(* the decoded bytes or a thrown InvalidCharacterError.                    *)

B64Chars ==
    << "A","B","C","D","E","F","G","H","I","J","K","L","M","N","O","P",
       "Q","R","S","T","U","V","W","X","Y","Z","a","b","c","d","e","f",
       "g","h","i","j","k","l","m","n","o","p","q","r","s","t","u","v",
       "w","x","y","z","0","1","2","3","4","5","6","7","8","9","+","/" >>

IsB64Char(c) == \E k \in 1..64 : B64Chars[k] = c
B64Value(c) == (CHOOSE k \in 1..64 : B64Chars[k] = c) - 1

\* String(undefined), which atob receives when the header has no second token.
UndefinedText == <<"u","n","d","e","f","i","n","e","d">>

StripWhitespace(s) == SelectSeq(s, LAMBDA c : c \notin {" ", "\t", "\n", "\r", "\f"})

\* Up to two trailing "=" are removed, and only when the length is a multiple of 4.
StripPadding(s) ==
    IF Len(s) % 4 # 0 \/ Len(s) = 0 THEN s
    ELSE IF s[Len(s)] # "=" THEN s
    ELSE IF s[Len(s) - 1] # "=" THEN SubSeq(s, 1, Len(s) - 1)
    ELSE SubSeq(s, 1, Len(s) - 2)

\* The bytes of one group of 2, 3 or 4 sextets; leftover bits are dropped.
GroupBytes(g) ==
    LET v(k) == B64Value(g[k])
        b1 == v(1) * 4 + v(2) \div 16
        b2 == (v(2) % 16) * 16 + v(3) \div 4
        b3 == (v(3) % 4) * 64 + v(4)
    IN  IF Len(g) = 2 THEN <<b1>>
        ELSE IF Len(g) = 3 THEN <<b1, b2>>
        ELSE <<b1, b2, b3>>

RECURSIVE DecodeGroups(_)
DecodeGroups(s) ==
    IF Len(s) = 0 THEN <<>>
    ELSE IF Len(s) <= 4 THEN GroupBytes(s)
    ELSE GroupBytes(SubSeq(s, 1, 4)) \o DecodeGroups(SubSeq(s, 5, Len(s)))

atob(data) ==
    LET text == IF IsNone(data) THEN UndefinedText ELSE Get(data)
        body == StripPadding(StripWhitespace(text))
    IN  IF Len(body) % 4 = 1 \/ \E k \in 1..Len(body) : ~IsB64Char(body[k])
        THEN [ok |-> FALSE, bytes |-> <<>>]
        ELSE [ok |-> TRUE, bytes |-> DecodeGroups(body)]

----------------------------------------------------------------------------
(* Errors and responses. *)

HttpError(statusCode, message) ==
    [kind |-> "HttpError", statusCode |-> statusCode, message |-> message]

\* Anything thrown that is not an HttpError: atob's DOMException, a network
\* error, the provider client's error for a non-2xx answer.
OtherError(name) == [kind |-> "Other", statusCode |-> 0, message |-> name]

Return(v) == [ok |-> TRUE, value |-> v, error |-> OtherError("")]
Throw(e) == [ok |-> FALSE, value |-> None, error |-> e]

Response(body, status) == [status |-> status, body |-> body]

\* The catch block of fetch.
CatchError(error) ==
    IF error.kind = "HttpError"
    THEN Response(error.message, error.statusCode)
    ELSE Response("Internal Server Error", 500)

\* The messages of the two copies of the handler.
Message(h, what) ==
    CASE what = "tokenMissing" -> "API token missing."
      [] what = "invalidKey" ->
            IF h = "index" THEN "Invalid API key or token."
            ELSE "Invalid API key or token format in Authorization header."
      [] what = "hostname" -> "The \"hostname\" parameter is required and cannot be empty."
      [] what = "noIp" ->
            IF h = "index" THEN "Unable to determine the client IP address."
            ELSE "Unable to determine the client IP address from Cloudflare."
      [] what = "manyZones" ->
            IF h = "index"
            THEN "More than one zone was found! You must supply an API Token scoped to a single zone."
            ELSE "More than one zone found! The API Token must be scoped to a single zone."
      [] what = "noZones" ->
            IF h = "index"
            THEN "No zones found! You must supply an API Token scoped to a single zone."
            ELSE "No zones found! The API Token must be scoped to at least one zone."
      [] what = "manyRecords" -> "More than one matching record found!"
      [] what = "noRecord" ->
            IF h = "index"
            THEN "No record found! You must first manually create the record."
            ELSE "No matching record found! You must manually create the record before updating."

----------------------------------------------------------------------------
(* constructClientOptions: the credential extractor. *)

IsControl(b) == b <= 31 \/ b = 127
Colon == 58

\* const [, data] = authorization.split(' ')
SecondToken(authorization) ==
    LET parts == split(authorization, " ")
    IN  IF Len(parts) >= 2 THEN Some(parts[2]) ELSE None

constructClientOptions(h, req) ==
    IF IsNone(req.authorization) \/ Get(req.authorization) = <<>>
    THEN Throw(HttpError(401, Message(h, "tokenMissing")))
    ELSE LET data == SecondToken(Get(req.authorization))
             decoded == atob(data)
             index == indexOf(decoded.bytes, Colon)
         IN  IF ~decoded.ok
             THEN Throw(OtherError("InvalidCharacterError"))
             ELSE IF index = -1 \/ \E k \in 1..Len(decoded.bytes) : IsControl(decoded.bytes[k])
             THEN Throw(HttpError(401, Message(h, "invalidKey")))
             ELSE Return([apiEmail |-> substringTo(decoded.bytes, index),
                          apiToken |-> substringFrom(decoded.bytes, index + 1)])

----------------------------------------------------------------------------
(* constructDNSRecord: the record builder. *)

Dot == "."

\* a || b on optional strings: b when a is undefined, null or empty.
OrElse(a, b) == IF IsSome(a) /\ Get(a) # <<>> THEN a ELSE b

\* request.cf?.connectingIp || request.headers.get('CF-Connecting-IP')
ConnectingIp(req) == OrElse(req.cfConnectingIp, req.headerConnectingIp)

\* A faulty variant: the address family is decided by ':' instead of '.'.
RecordTypeByColon(ip) == IF includes(ip, ":") THEN "AAAA" ELSE "A"

RecordType(ip) == IF includes(ip, Dot) THEN "A" ELSE "AAAA"

\* A faulty variant: the client-supplied ip parameter wins over the connecting IP.
constructDNSRecordFromParam(h, req) ==
    IF IsNone(req.hostname) \/ Get(req.hostname) = ""
    THEN Throw(HttpError(422, Message(h, "hostname")))
    ELSE LET ip == OrElse(req.ip, ConnectingIp(req))
         IN  IF IsNone(ip) \/ Get(ip) = <<>>
             THEN Throw(HttpError(500, Message(h, "noIp")))
             ELSE Return([content |-> Get(ip),
                          name |-> Get(req.hostname),
                          type |-> RecordType(Get(ip)),
                          ttl |-> 1])

\* A faulty variant: the connecting IP is checked before the hostname.
constructDNSRecordIpFirst(h, req) ==
    LET ip == ConnectingIp(req)
    IN  IF IsNone(ip) \/ Get(ip) = <<>>
        THEN Throw(HttpError(500, Message(h, "noIp")))
        ELSE IF IsNone(req.hostname) \/ Get(req.hostname) = ""
        THEN Throw(HttpError(422, Message(h, "hostname")))
        ELSE Return([content |-> Get(ip),
                     name |-> Get(req.hostname),
                     type |-> RecordType(Get(ip)),
                     ttl |-> 1])

constructDNSRecord(h, req) ==
    IF IsNone(req.hostname) \/ Get(req.hostname) = ""
    THEN Throw(HttpError(422, Message(h, "hostname")))
    ELSE LET ip == ConnectingIp(req)
         IN  IF IsNone(ip) \/ Get(ip) = <<>>
             THEN Throw(HttpError(500, Message(h, "noIp")))
             ELSE Return([content |-> Get(ip),
                          name |-> Get(req.hostname),
                          type |-> RecordType(Get(ip)),
                          ttl |-> 1])

----------------------------------------------------------------------------
(* update: what the handler does with each provider answer. *)

\* A faulty variant: only a disabled token is rejected.
checkTokenLax(h, tokenStatus) ==
    IF tokenStatus = "disabled"
    THEN Throw(HttpError(401, "This API Token is " \o tokenStatus))
    ELSE Return(tokenStatus)

\* tokenStatus !== 'active'
checkToken(h, tokenStatus) ==
    IF tokenStatus # "active"
    THEN Throw(HttpError(401, "This API Token is " \o tokenStatus))
    ELSE Return(tokenStatus)

\* A faulty variant: with several zones the first one is taken.
resolveZoneFirst(h, zones) ==
    IF Len(zones) = 0 THEN Throw(HttpError(400, Message(h, "noZones")))
    ELSE Return(zones[1])

\* zones.length > 1, zones.length === 0, else zones[0]
resolveZone(h, zones) ==
    IF Len(zones) > 1 THEN Throw(HttpError(400, Message(h, "manyZones")))
    ELSE IF Len(zones) = 0 THEN Throw(HttpError(400, Message(h, "noZones")))
    ELSE Return(zones[1])

\* records[0].id === undefined (index.ts), !records[0].id (part_000)
lacksId(h, record) ==
    IF h = "index" THEN IsNone(record.id)
    ELSE IsNone(record.id) \/ Get(record.id) = ""

\* A faulty variant: with several matches the first one is taken.
resolveRecordFirst(h, records) ==
    IF Len(records) = 0 \/ lacksId(h, records[1])
    THEN Throw(HttpError(400, Message(h, "noRecord")))
    ELSE Return(records[1])

resolveRecord(h, records) ==
    IF Len(records) > 1 THEN Throw(HttpError(400, Message(h, "manyRecords")))
    ELSE IF Len(records) = 0 \/ lacksId(h, records[1])
    THEN Throw(HttpError(400, Message(h, "noRecord")))
    ELSE Return(records[1])

\* The parameters of cloudflare.dns.records.list.
listParams(newRecord, zone) ==
    [zone_id |-> zone.id, name |-> newRecord.name, type |-> newRecord.type]

\* A faulty variant: proxied is not read from the existing record.
preservedProxiedDropped(currentRecord) == FALSE

\* currentRecord.proxied ?? false
preservedProxied(currentRecord) ==
    IF IsSome(currentRecord.proxied) THEN Get(currentRecord.proxied) ELSE FALSE

\* currentRecord.comment
preservedComment(currentRecord) == currentRecord.comment

\* The identifier and the parameters of cloudflare.dns.records.update.
updateParams(newRecord, zone, currentRecord) ==
    [id |-> Get(currentRecord.id),
     content |-> newRecord.content,
     zone_id |-> zone.id,
     name |-> newRecord.name,
     type |-> newRecord.type,
     proxied |-> preservedProxied(currentRecord),
     comment |-> preservedComment(currentRecord)]

----------------------------------------------------------------------------
(* The provider: token verification, the zones of the token, and the       *)
(* records of zone ZoneId.                                                 *)

ZoneId == "z1"
Zone(id) == [id |-> id]
ZoneLists == {<<>>, <<Zone(ZoneId)>>, <<Zone(ZoneId), Zone("z2")>>}
TokenStatuses == {"active", "Active", "disabled", "expired"}

Slots == {1, 2}

\* The stored records, in slot order, that a list call with these parameters returns.
RECURSIVE matching(_, _, _)
matching(st, params, slot) ==
    IF slot \notin Slots THEN <<>>
    ELSE LET rest == matching(st, params, slot + 1)
         IN  IF /\ IsSome(st[slot])
                /\ params.zone_id = ZoneId
                /\ Get(st[slot]).name = params.name
                /\ Get(st[slot]).type = params.type
             THEN <<Get(st[slot])>> \o rest
             ELSE rest

\* The slot an update call addresses, if any.
Addressed(st, params) ==
    {s \in Slots : /\ IsSome(st[s])
                   /\ params.zone_id = ZoneId
                   /\ IsSome(Get(st[s]).id)
                   /\ Get(Get(st[s]).id) # ""
                   /\ Get(Get(st[s]).id) = params.id}

\* PUT: content, proxied and comment are overwritten by what the call carries.
applyUpdate(st, params) ==
    [s \in Slots |->
        IF s \in Addressed(st, params)
        THEN Some([Get(st[s]) EXCEPT !.content = params.content,
                                     !.proxied = Some(params.proxied),
                                     !.comment = params.comment])
        ELSE st[s]]

----------------------------------------------------------------------------
(* The handler as a state machine.  Between two awaits the handler runs    *)
(* without interruption, so one action is the code from one resumption to  *)
(* the next await or to the returned Response.                             *)

Ids == {1, 2}
Invocations == DOMAIN pc \cap Ids

Call(op, auth, params) ==
    [op |-> op, auth |-> auth, params |-> params, state |-> "pending",
     result |-> None, error |-> OtherError("")]

LastCall(i) == calls[i][Len(calls[i])]
Pending(i) == Len(calls[i]) > 0 /\ LastCall(i).state = "pending"
Answered(i) == Len(calls[i]) > 0 /\ LastCall(i).state = "ok"
Failed(i) == Len(calls[i]) > 0 /\ LastCall(i).state = "failed"
Result(i) == Get(LastCall(i).result)

Event(kind, i, status, params, before) ==
    [kind |-> kind, by |-> i, status |-> status, params |-> params, before |-> before]

\* return new Response(...): the invocation ends.
Respond(i, resp) ==
    /\ response' = [response EXCEPT ![i] = Some(resp)]
    /\ pc' = [pc EXCEPT ![i] = "done"]
    /\ history' = Append(history, Event("response", i, resp.status, None, None))

\* await cloudflare.<op>(params): the call leaves and the handler suspends.
Issue(i, op, params) ==
    /\ calls' = [calls EXCEPT ![i] = Append(@, Call(op, env[i].clientOptions, params))]
    /\ pc' = [pc EXCEPT ![i] = op]
    /\ UNCHANGED <<response, history>>

\* The provider's answer to the call in flight reaches the client library.
Answer(i, result) ==
    calls' = [calls EXCEPT ![i][Len(calls[i])] =
                 [@ EXCEPT !.state = "ok", !.result = Some(result)]]

\* fetch, up to the first await of update.
fetch(i) ==
    /\ i \in Invocations /\ pc[i] = "start"
    /\ LET clientOptions == constructClientOptions(handler, request[i])
           record == constructDNSRecord(handler, request[i])
       IN  IF ~clientOptions.ok
           THEN Respond(i, CatchError(clientOptions.error)) /\ UNCHANGED <<env, calls>>
           ELSE IF ~record.ok
           THEN Respond(i, CatchError(record.error)) /\ UNCHANGED <<env, calls>>
           ELSE /\ env' = [env EXCEPT ![i] = [clientOptions |-> Some(clientOptions.value),
                                              newRecord |-> Some(record.value),
                                              zone |-> None]]
                /\ calls' = [calls EXCEPT ![i] =
                                Append(@, Call("verify", Some(clientOptions.value), None))]
                /\ pc' = [pc EXCEPT ![i] = "verify"]
                /\ UNCHANGED <<response, history>>
    /\ UNCHANGED <<handler, request, store, store0, edits>>

\* update, from the answer of tokens.verify to the await of zones.list.
afterVerify(i) ==
    /\ i \in Invocations /\ pc[i] = "verify" /\ Answered(i)
    /\ LET token == checkToken(handler, Result(i))
       IN  IF ~token.ok
           THEN Respond(i, CatchError(token.error)) /\ UNCHANGED calls
           ELSE Issue(i, "zones", None)
    /\ UNCHANGED <<handler, request, env, store, store0, edits>>

\* update, from the answer of zones.list to the await of dns.records.list.
afterZones(i) ==
    /\ i \in Invocations /\ pc[i] = "zones" /\ Answered(i)
    /\ LET zone == resolveZone(handler, Result(i))
       IN  IF ~zone.ok
           THEN Respond(i, CatchError(zone.error)) /\ UNCHANGED <<calls, env>>
           ELSE /\ env' = [env EXCEPT ![i].zone = Some(zone.value)]
                /\ Issue(i, "records", Some(listParams(Get(env[i].newRecord), zone.value)))
    /\ UNCHANGED <<handler, request, store, store0, edits>>

\* A faulty variant: update-record is held back while another invocation's is in flight.
afterRecordsExclusive(i) ==
    /\ i \in Invocations /\ pc[i] = "records" /\ Answered(i)
    /\ \A j \in Invocations \ {i} : pc[j] # "update"
    /\ LET current == resolveRecord(handler, Result(i))
       IN  IF ~current.ok
           THEN Respond(i, CatchError(current.error)) /\ UNCHANGED calls
           ELSE Issue(i, "update",
                      Some(updateParams(Get(env[i].newRecord), Get(env[i].zone), current.value)))
    /\ UNCHANGED <<handler, request, env, store, store0, edits>>

\* update, from the answer of dns.records.list to the await of dns.records.update.
afterRecords(i) ==
    /\ i \in Invocations /\ pc[i] = "records" /\ Answered(i)
    /\ LET current == resolveRecord(handler, Result(i))
       IN  IF ~current.ok
           THEN Respond(i, CatchError(current.error)) /\ UNCHANGED calls
           ELSE Issue(i, "update",
                      Some(updateParams(Get(env[i].newRecord), Get(env[i].zone), current.value)))
    /\ UNCHANGED <<handler, request, env, store, store0, edits>>

\* update, from the answer of dns.records.update to return new Response('OK').
afterUpdate(i) ==
    /\ i \in Invocations /\ pc[i] = "update" /\ Answered(i)
    /\ Respond(i, Response("OK", 200))
    /\ UNCHANGED <<handler, request, env, calls, store, store0, edits>>

\* A faulty variant: a failed call is issued again.
afterFailureRetry(i) ==
    /\ i \in Invocations /\ pc[i] \in {"verify", "zones", "records", "update"} /\ Failed(i)
    /\ calls' = [calls EXCEPT ![i] = Append(@, Call(LastCall(i).op, LastCall(i).auth, LastCall(i).params))]
    /\ UNCHANGED <<handler, request, pc, env, response, store, store0, edits, history>>

\* An awaited call rejects with something that is no HttpError: the catch
\* block of fetch answers 500.
afterFailure(i) ==
    /\ i \in Invocations /\ pc[i] \in {"verify", "zones", "records", "update"} /\ Failed(i)
    /\ Respond(i, CatchError(LastCall(i).error))
    /\ UNCHANGED <<handler, request, env, calls, store, store0, edits>>

----------------------------------------------------------------------------
(* The provider's side of each call. *)

providerVerify(i) ==
    /\ i \in Invocations /\ pc[i] = "verify" /\ Pending(i)
    /\ \E status \in TokenStatuses : Answer(i, status)
    /\ UNCHANGED <<handler, request, pc, env, response, store, store0, edits, history>>

providerZones(i) ==
    /\ i \in Invocations /\ pc[i] = "zones" /\ Pending(i)
    /\ \E zones \in ZoneLists : Answer(i, zones)
    /\ UNCHANGED <<handler, request, pc, env, response, store, store0, edits, history>>

providerRecords(i) ==
    /\ i \in Invocations /\ pc[i] = "records" /\ Pending(i)
    /\ Answer(i, matching(store, Get(LastCall(i).params), 1))
    /\ UNCHANGED <<handler, request, pc, env, response, store, store0, edits, history>>

\* The write is applied, and the answer is either delivered or lost.
providerUpdate(i) ==
    /\ i \in Invocations /\ pc[i] = "update" /\ Pending(i)
    /\ LET params == Get(LastCall(i).params)
       IN  /\ Addressed(store, params) # {}
           /\ store' = applyUpdate(store, params)
           /\ history' = Append(history,
                  Event("write", i, 0, Some(params),
                        Some(Get(store[CHOOSE s \in Addressed(store, params) : TRUE]))))
    /\ \/ Answer(i, "updated")
       \/ calls' = [calls EXCEPT ![i][Len(calls[i])] =
                       [@ EXCEPT !.state = "failed", !.error = OtherError("ConnectionError")]]
    /\ UNCHANGED <<handler, request, pc, env, response, store0, edits>>

\* A call fails before the provider acts on it: a network error, or an
\* answer that is not 2xx, which the client library throws as an APIError.
providerFailure(i) ==
    /\ i \in Invocations /\ pc[i] \in {"verify", "zones", "records", "update"} /\ Pending(i)
    /\ \E name \in {"ConnectionError", "APIError"} :
          calls' = [calls EXCEPT ![i][Len(calls[i])] =
                       [@ EXCEPT !.state = "failed", !.error = OtherError(name)]]
    /\ UNCHANGED <<handler, request, pc, env, response, store, store0, edits, history>>

\* Someone else edits proxied or comment of a stored record.
ProxiedValues == {None, Some(TRUE), Some(FALSE)}
CommentValues == {None, Some("note"), Some("edited")}

otherActorEdits ==
    /\ edits < MaxEdits
    /\ \E s \in Slots, p \in ProxiedValues, c \in CommentValues :
          /\ IsSome(store[s])
          /\ <<p, c>> # <<Get(store[s]).proxied, Get(store[s]).comment>>
          /\ store' = [store EXCEPT ![s] = Some([Get(@) EXCEPT !.proxied = p, !.comment = c])]
    /\ edits' = edits + 1
    /\ UNCHANGED <<handler, request, pc, env, calls, response, store0, history>>

----------------------------------------------------------------------------
(* Requests, stores and the specifications. *)

Handlers == {"index", "part_000"}

Request(authorization, hostname, ip, cfConnectingIp, headerConnectingIp) ==
    [authorization |-> authorization, hostname |-> hostname, ip |-> ip,
     cfConnectingIp |-> cfConnectingIp, headerConnectingIp |-> headerConnectingIp]

AuthAlphabet == {" ", "O", "g", "A", "=", "!"}
IpAlphabet == {"1", ".", ":"}
IpStrings == SeqsBetween(IpAlphabet, 1, MaxIpLen)
Optional(S) == {None} \cup {Some(v) : v \in S}

\* "A Og" carries base64(":"); the others are missing, empty, without a second
\* token, undecodable, and decodable to a control character.
ValidHeader == <<"A", " ", "O", "g">>
SampleHeaders ==
    {None, Some(<<>>), Some(ValidHeader), Some(<<"A">>), Some(<<"A", " ", "!">>),
     Some(<<"A", " ", "A", "A">>)}

\* Every header, hostname and ip parameter against a present or absent
\* connecting IP, and every pair of connecting-IP sources on a valid request.
Requests ==
    {Request(a, h, p, None, hd) :
        a \in SampleHeaders,
        h \in {None, Some(""), Some("h1")},
        p \in {None, Some(<<".">>)},
        hd \in {None, Some(<<":">>)}}
    \cup
    {Request(Some(ValidHeader), Some("h1"), p, cf, hd) :
        p \in {None, Some(<<".">>)},
        cf \in Optional({<<>>} \cup IpStrings),
        hd \in {None, Some(<<>>), Some(<<":">>)}}

OldIp == <<"0">>

StoredRecord(id, name, type, proxied, comment) ==
    [id |-> id, name |-> name, type |-> type, content |-> OldIp,
     proxied |-> proxied, comment |-> comment]

\* Slot 1 is empty or holds a record named h1: one with or without a usable
\* identifier, or an identified one with any proxied and comment.  Slot 2 is
\* empty or holds a second record, of the same or of another name and type.
FirstRecords ==
    {StoredRecord(id, "h1", t, None, None) : id \in {None, Some("")}, t \in {"A", "AAAA"}}
    \cup
    {StoredRecord(Some("r1"), "h1", t, p, c) :
        t \in {"A", "AAAA"}, p \in ProxiedValues, c \in {None, Some("note")}}

SecondRecords ==
    {StoredRecord(Some("r2"), "h1", "A", None, None),
     StoredRecord(Some("r2"), "h2", "AAAA", None, None)}

Stores ==
    {[s \in Slots |-> IF s = 1 THEN first ELSE second] :
        first \in Optional(FirstRecords), second \in Optional(SecondRecords)}

InitOf(I, R, S) ==
    /\ handler \in Handlers
    /\ request \in [I -> R]
    /\ pc = [i \in I |-> "start"]
    /\ env = [i \in I |-> [clientOptions |-> None, newRecord |-> None, zone |-> None]]
    /\ calls = [i \in I |-> <<>>]
    /\ response = [i \in I |-> None]
    /\ store \in S
    /\ store0 = store
    /\ edits = 0
    /\ history = <<>>

Init == InitOf({1}, Requests, Stores)

Next ==
    \/ \E i \in Ids : fetch(i)
    \/ \E i \in Ids : providerVerify(i)
    \/ \E i \in Ids : afterVerify(i)
    \/ \E i \in Ids : providerZones(i)
    \/ \E i \in Ids : afterZones(i)
    \/ \E i \in Ids : providerRecords(i)
    \/ \E i \in Ids : afterRecords(i)
    \/ \E i \in Ids : providerUpdate(i)
    \/ \E i \in Ids : afterUpdate(i)
    \/ \E i \in Ids : providerFailure(i)
    \/ \E i \in Ids : afterFailure(i)

Spec == Init /\ [][Next]_vars

\* The credential extractor on every header of up to MaxHeaderLen characters.
AuthRequests ==
    {Request(a, Some("h1"), None, None, Some(<<":">>)) :
        a \in Optional(SeqsBetween(AuthAlphabet, 0, MaxHeaderLen))}

EmptyStore == [s \in Slots |-> None]

InitAuth == InitOf({1}, AuthRequests, {EmptyStore})
NextAuth == \E i \in Ids : fetch(i)
SpecAuth == InitAuth /\ [][NextAuth]_vars

\* Two invocations for the same hostname and record type from different IPs,
\* and other actors editing the record.
RaceRequests ==
    {Request(Some(ValidHeader), Some("h1"), None, None, Some(ip)) : ip \in {<<"1", ".">>, <<".", "1">>}}

RaceStores ==
    {[s \in Slots |-> IF s = 1 THEN Some(StoredRecord(Some("r1"), "h1", "A", p, Some("note")))
                      ELSE None] : p \in {None, Some(TRUE)}}

InitRace ==
    /\ InitOf({1, 2}, RaceRequests, RaceStores)
    /\ ConnectingIp(request[1]) # ConnectingIp(request[2])

NextRace == Next \/ otherActorEdits
SpecRace == InitRace /\ [][NextRace]_vars

----------------------------------------------------------------------------
(* What the claims read off a state. *)

\* Some step of an invocation that is past its entry: the provider's side of
\* its call in flight, or the handler's code after the answer.
Proceed(i) ==
    \/ providerVerify(i)
    \/ afterVerify(i)
    \/ providerZones(i)
    \/ afterZones(i)
    \/ providerRecords(i)
    \/ afterRecords(i)
    \/ providerUpdate(i)
    \/ afterUpdate(i)
    \/ providerFailure(i)
    \/ afterFailure(i)

Started(i) == pc[i] \notin {"start", "done"}

OpOrder == <<"verify", "zones", "records", "update">>

Done(i) == pc[i] = "done"
Status(i) == Get(response[i]).status
Issued(i, op) == \E k \in 1..Len(calls[i]) : calls[i][k].op = op
CountOf(i, op) == Cardinality({k \in 1..Len(calls[i]) : calls[i][k].op = op})

\* The call of invocation i at position k of the fixed order, once answered.
AnsweredAt(i, k) == Len(calls[i]) >= k /\ calls[i][k].state = "ok"
ResultAt(i, k) == Get(calls[i][k].result)
ParamsAt(i, k) == Get(calls[i][k].params)

Writes == {k \in 1..Len(history) : history[k].kind = "write"}
WritesBy(i) == {k \in Writes : history[k].by = i}
Responses == {k \in 1..Len(history) : history[k].kind = "response"}

PresentSlots(st) == {s \in Slots : IsSome(st[s])}

\* The transport-observed address of a request, read off its fields.
HasText(o) == IsSome(o) /\ Len(Get(o)) > 0
TransportIp(req) ==
    IF HasText(req.cfConnectingIp) THEN Get(req.cfConnectingIp)
    ELSE Get(req.headerConnectingIp)
HasTransportIp(req) == HasText(req.cfConnectingIp) \/ HasText(req.headerConnectingIp)
HasHostname(req) == IsSome(req.hostname) /\ Get(req.hostname) # ""

----------------------------------------------------------------------------
(* C1. The provider operations of an invocation are issued in the order    *)
(* verify-token, list-zones, list-records, update-record, each only after  *)
(* the previous one was answered; update-record is issued at most once and *)
(* only after verify answered exactly "active", list-zones answered one    *)
(* zone and list-records answered one record with an identifier; and an    *)
(* invocation that has not issued update-record has written nothing, so    *)
(* the stored records are as they were.                                    *)

C1_OrderedAndGuarded ==
    \A i \in Invocations :
        /\ Len(calls[i]) <= 4
        /\ \A k \in 1..Len(calls[i]) : calls[i][k].op = OpOrder[k]
        /\ \A k \in 1..(Len(calls[i]) - 1) : calls[i][k].state = "ok"
        /\ Issued(i, "update") =>
              /\ ResultAt(i, 1) = "active"
              /\ Len(ResultAt(i, 2)) = 1
              /\ Len(ResultAt(i, 3)) = 1
              /\ IsSome(ResultAt(i, 3)[1].id)
        /\ ~Issued(i, "update") => WritesBy(i) = {}
        /\ (\A j \in Invocations : ~Issued(j, "update")) /\ edits = 0 => store = store0

C1_Witness ==
    \E i \in Invocations :
        /\ Done(i) /\ Status(i) = 200
        /\ Len(calls[i]) = 4
        /\ \E s \in Slots : IsSome(store[s]) /\ Get(store[s]).content # OldIp

----------------------------------------------------------------------------
(* C2. When list-zones answers no zone or more than one, the invocation    *)
(* ends with status 400 and issues neither list-records nor update-record. *)

C2_ZoneCountRejected ==
    \A i \in Invocations :
        AnsweredAt(i, 2) /\ Len(ResultAt(i, 2)) # 1 =>
            /\ Len(calls[i]) = 2
            /\ ~Issued(i, "records") /\ ~Issued(i, "update")
            /\ pc[i] \in {"zones", "done"}
            /\ Done(i) => Status(i) = 400

C2_Witness ==
    \E i \in Invocations :
        /\ Done(i) /\ Status(i) = 400 /\ AnsweredAt(i, 2) /\ Len(ResultAt(i, 2)) = 2
        /\ Len(calls[i]) = 2

----------------------------------------------------------------------------
(* C3. When list-records answers no match, more than one match, or one     *)
(* match without an identifier, the invocation ends with status 400 and    *)
(* issues no update-record; and the handler never creates a record: the    *)
(* set of stored records never grows.                                      *)

C3_RecordCountRejected ==
    /\ \A i \in Invocations :
          /\ AnsweredAt(i, 3)
          /\ \/ Len(ResultAt(i, 3)) # 1
             \/ IsNone(ResultAt(i, 3)[1].id)
          => /\ Len(calls[i]) = 3
             /\ ~Issued(i, "update")
             /\ pc[i] \in {"records", "done"}
             /\ Done(i) => Status(i) = 400
    /\ PresentSlots(store) = PresentSlots(store0)
    /\ \A i \in Invocations : \A k \in 1..Len(calls[i]) : calls[i][k].op # "create"

C3_Witness ==
    \E i \in Invocations :
        /\ Done(i) /\ Status(i) = 400 /\ AnsweredAt(i, 3)
        /\ Len(ResultAt(i, 3)) = 1 /\ IsNone(ResultAt(i, 3)[1].id)
        /\ \E j \in Invocations : Done(j) /\ Len(calls[j]) = 3 /\ store = store0

----------------------------------------------------------------------------
(* C4. With exactly one match, update-record targets that record's         *)
(* identifier in the resolved zone and carries the proxied value read from *)
(* it (false when it has none) and its comment; after the write, the       *)
(* record differs from the one that was there only in content (and in      *)
(* proxied being spelled out).                                             *)

C4_SecondaryAttributesPreserved ==
    /\ \A i \in Invocations :
          Issued(i, "update") =>
              LET existing == ResultAt(i, 3)[1]
                  params == ParamsAt(i, 4)
              IN  /\ Len(ResultAt(i, 3)) = 1
                  /\ params.id = Get(existing.id)
                  /\ params.zone_id = ResultAt(i, 2)[1].id
                  /\ params.proxied = (IF IsSome(existing.proxied)
                                       THEN Get(existing.proxied) ELSE FALSE)
                  /\ params.comment = existing.comment
                  /\ params.name = existing.name
                  /\ params.type = existing.type
    /\ \A k \in Writes :
          LET before == Get(history[k].before)
              params == Get(history[k].params)
          IN  \E s \in Slots :
                 /\ IsSome(store[s])
                 /\ Get(store[s]) =
                       [before EXCEPT !.content = params.content,
                                      !.proxied = Some(IF IsSome(before.proxied)
                                                       THEN Get(before.proxied) ELSE FALSE)]

C4_Witness ==
    \E i \in Invocations :
        /\ Done(i) /\ Status(i) = 200
        /\ \E s \in Slots :
              /\ IsSome(store[s]) /\ IsSome(store0[s])
              /\ Get(store[s]).content # Get(store0[s]).content
              /\ Get(store0[s]).proxied = Some(TRUE)
              /\ Get(store[s]).proxied = Some(TRUE)
              /\ Get(store[s]).comment = Some("note")

----------------------------------------------------------------------------
(* C5. The content of the constructed record and of every update-record    *)
(* call is the transport-observed connecting IP, never the ip query        *)
(* parameter: both builders give the same result whatever the ip parameter *)
(* is, and every call's arguments come from those results alone.           *)

IpParams == {None, Some(<<".">>), Some(<<":">>), Some(<<"1", ".">>)}

C5_IpParameterIgnored ==
    \A i \in Invocations :
        /\ pc[i] = "start" => \A p \in IpParams :
              LET other == [request[i] EXCEPT !.ip = p]
              IN  /\ constructDNSRecord(handler, other) = constructDNSRecord(handler, request[i])
                  /\ constructClientOptions(handler, other) =
                        constructClientOptions(handler, request[i])
        /\ IsSome(env[i].newRecord) =>
              /\ HasTransportIp(request[i])
              /\ Get(env[i].newRecord).content = TransportIp(request[i])
        /\ \A k \in 1..Len(calls[i]) :
              /\ calls[i][k].auth = env[i].clientOptions
              /\ k = 3 => /\ ParamsAt(i, k).name = Get(env[i].newRecord).name
                          /\ ParamsAt(i, k).type = Get(env[i].newRecord).type
              /\ k = 4 => /\ ParamsAt(i, k).content = TransportIp(request[i])
                          /\ ParamsAt(i, k).name = Get(env[i].newRecord).name
                          /\ ParamsAt(i, k).type = Get(env[i].newRecord).type
        /\ \A k \in WritesBy(i) : Get(history[k].params).content = TransportIp(request[i])

C5_Witness ==
    \E i \in Invocations :
        /\ Done(i) /\ Status(i) = 200
        /\ request[i].ip = Some(<<".">>)
        /\ TransportIp(request[i]) = <<":">>
        /\ \E s \in Slots : IsSome(store[s]) /\ Get(store[s]).content = <<":">>

----------------------------------------------------------------------------
(* C6. The record type of the list-records filter and of the update-record *)
(* call is "A" when the connecting IP contains a '.', and "AAAA" when it   *)
(* does not; both calls carry the same type and the requested hostname;    *)
(* and an invocation whose update-record was answered ends with 200 "OK".  *)

ContainsDot(ip) == \E k \in 1..Len(ip) : ip[k] = "."
DerivedType(ip) == IF ContainsDot(ip) THEN "A" ELSE "AAAA"

C6_TypeFromDot ==
    \A i \in Invocations :
        /\ Issued(i, "records") =>
              /\ ParamsAt(i, 3).type = DerivedType(TransportIp(request[i]))
              /\ ParamsAt(i, 3).name = Get(request[i].hostname)
        /\ Issued(i, "update") =>
              /\ ParamsAt(i, 4).type = DerivedType(TransportIp(request[i]))
              /\ ParamsAt(i, 4).type = ParamsAt(i, 3).type
              /\ ParamsAt(i, 4).name = ParamsAt(i, 3).name
        /\ Done(i) /\ AnsweredAt(i, 4) => Get(response[i]) = Response("OK", 200)

C6_Witness ==
    \E i \in Invocations :
        /\ Done(i) /\ AnsweredAt(i, 4) /\ Status(i) = 200
        /\ TransportIp(request[i]) = <<"1">>
        /\ ParamsAt(i, 4).type = "AAAA"

----------------------------------------------------------------------------
(* C7. A request that fails local validation issues no provider call and   *)
(* gets the classified status: 401 without an Authorization header, 422    *)
(* with a valid header and a missing or empty hostname (whatever the ip    *)
(* parameter), 500 with a valid header and hostname and no connecting IP.  *)

ValidCredentials(req) == constructClientOptions(handler, req).ok

C7_LocalValidation ==
    \A i \in Invocations :
        LET req == request[i]
        IN  /\ IsNone(req.authorization) =>
                  /\ calls[i] = <<>>
                  /\ Done(i) => Status(i) = 401
            /\ ValidCredentials(req) /\ ~HasHostname(req) =>
                  /\ calls[i] = <<>>
                  /\ Done(i) => Status(i) = 422
            /\ ValidCredentials(req) /\ HasHostname(req) /\ ~HasTransportIp(req) =>
                  /\ calls[i] = <<>>
                  /\ Done(i) => Status(i) = 500
            /\ ~ValidCredentials(req) => calls[i] = <<>>
            /\ pc[i] # "start" /\ calls[i] = <<>> => Done(i) /\ Status(i) \in {401, 422, 500}

C7_Witness ==
    \E i \in Invocations :
        /\ Done(i) /\ Status(i) = 422 /\ calls[i] = <<>>
        /\ ValidCredentials(request[i])
        /\ IsSome(request[i].ip)
        /\ ~HasTransportIp(request[i])

----------------------------------------------------------------------------
(* C8. Every malformed Authorization header is answered with 401: one      *)
(* whose credential part fails base64 decoding, one without a second       *)
(* space-separated token, one whose decoded text has no ':', and one whose *)
(* decoded text holds a control character.                                 *)

Malformed(authorization) ==
    LET data == SecondToken(authorization)
        decoded == atob(data)
    IN  \/ IsNone(data)
        \/ ~decoded.ok
        \/ \A k \in 1..Len(decoded.bytes) : decoded.bytes[k] # 58
        \/ \E k \in 1..Len(decoded.bytes) :
              decoded.bytes[k] \in 0..31 \/ decoded.bytes[k] = 127

C8_MalformedHeaderIs401 ==
    \A i \in Invocations :
        /\ Done(i)
        /\ IsSome(request[i].authorization)
        /\ Malformed(Get(request[i].authorization))
        => Status(i) = 401

----------------------------------------------------------------------------
(* C9. No provider operation is issued twice by one invocation; a failed   *)
(* call is the invocation's last call and its response is 500 "Internal    *)
(* Server Error"; an invocation has one response exactly when it is done,  *)
(* its status is one of 200, 400, 401, 422, 500, and it is 200 only when   *)
(* update-record was answered; and a started invocation is never stuck.    *)

C9_NoRetrySingleResponse ==
    \A i \in Invocations :
        /\ \A op \in {"verify", "zones", "records", "update"} : CountOf(i, op) <= 1
        /\ \A k \in 1..Len(calls[i]) :
              calls[i][k].state = "failed" =>
                  /\ k = Len(calls[i])
                  /\ pc[i] \in {calls[i][k].op, "done"}
                  /\ Done(i) => Get(response[i]) = Response("Internal Server Error", 500)
        /\ Done(i) <=> IsSome(response[i])
        /\ Cardinality({k \in Responses : history[k].by = i}) = (IF Done(i) THEN 1 ELSE 0)
        /\ Done(i) =>
              /\ Status(i) \in {200, 400, 401, 422, 500}
              /\ Status(i) = 200 => AnsweredAt(i, 4) /\ WritesBy(i) # {}
        /\ Started(i) => ENABLED Proceed(i)

C9_Witness ==
    \E i \in Invocations :
        /\ Done(i) /\ Get(response[i]) = Response("Internal Server Error", 500)
        /\ Len(calls[i]) = 4 /\ calls[i][4].state = "failed"
        /\ WritesBy(i) # {}

----------------------------------------------------------------------------
(* C10. Concurrent invocations are not coordinated: a started invocation   *)
(* can always take its next step, whatever the others are doing (nothing   *)
(* makes it wait between list-records and update-record); every write      *)
(* carries the proxied and comment its invocation read at list-records     *)
(* time, whatever the store holds by then; and the stored content is that  *)
(* of the write the provider applied last.  So both may answer 200 with    *)
(* the stored content being the IP of the one that responded first, and a  *)
(* write may put back values that another actor changed in between.        *)

LastWrite == CHOOSE k \in Writes : \A j \in Writes : j <= k

ProxiedOrFalse(record) == IF IsSome(record.proxied) THEN Get(record.proxied) ELSE FALSE

Stale(k) ==
    LET before == Get(history[k].before)
        params == Get(history[k].params)
    IN  \/ params.comment # before.comment
        \/ params.proxied # ProxiedOrFalse(before)

C10_Uncoordinated ==
    /\ \A i \in Invocations : Started(i) => ENABLED Proceed(i)
    /\ \A k \in Writes :
          LET i == history[k].by
              read == ResultAt(i, 3)[1]
              params == Get(history[k].params)
          IN  /\ params.proxied = ProxiedOrFalse(read)
              /\ params.comment = read.comment
              /\ params.content = TransportIp(request[i])
    /\ Writes # {} =>
          \E s \in Slots :
              IsSome(store[s]) /\ Get(store[s]).content = Get(history[LastWrite].params).content

C10_Witness ==
    \E i, j \in Invocations :
        /\ i # j
        /\ Done(i) /\ Status(i) = 200
        /\ Done(j) /\ Status(j) = 200
        /\ \E k \in Responses :
              /\ history[k].by = j
              /\ \A m \in Responses : k <= m
        /\ \E s \in Slots :
              IsSome(store[s]) /\ Get(store[s]).content = TransportIp(request[j])
        /\ history[LastWrite].by = j
        /\ \E k \in Writes : Stale(k)

====
